---- MODULE Spec2Model ----
(***************************************************************************)
(* tokio-byteorder: the poll() state machines generated by the reader!,    *)
(* reader8!, writer! and writer8! macros of src/lib.rs, instantiated for   *)
(* the numeric types listed in src/tokio/io_tokio.rs, driven by a channel  *)
(* (AsyncRead / AsyncWrite) whose responses are chosen by the environment. *)
(*                                                                         *)
(* A multi-byte numeric value is held as the sequence of the bytes of its  *)
(* carrier type, least significant byte first, in two's complement (u64    *)
(* and u128 do not fit the integers of the model checker).  An 8-bit value *)
(* is held as an integer.                                                  *)
(***************************************************************************)
EXTENDS Integers, Sequences, FiniteSets, TLC

\* ------------------------------------------------------------------ bounds
\* poll() invocations of one accumulator
MaxPolls == 3
\* zero-length acceptances one encode accumulator sees
MaxZero == 2
\* accumulators constructed on one channel
MaxOps == 2
\* responses outside the channel's contract one accumulator sees
MaxLies == 1

\* the channels / accumulator slots of the model
Ids == {1, 2}

\* ------------------------------------------------------------- small helpers
Min(a, b) == IF a <= b THEN a ELSE b

Fill(n, b) == [k \in 1..n |-> b]

Rev(s) == [k \in 1..Len(s) |-> s[Len(s) + 1 - k]]

RECURSIVE Pow256(_)
Pow256(k) == IF k = 0 THEN 1 ELSE 256 * Pow256(k - 1)

\* the bytes, least significant first, of a natural number n < 256^cw
FromNat(n, cw) == [k \in 1..cw |-> (n \div Pow256(k - 1)) % 256]

\* ---------------------------------------------------------------- formats
\* ty: "u" unsigned, "i" signed, "f" IEEE-754 (held as its bit pattern);
\* w: bytes on the wire ($bytes); cw: bytes of the carrier type ($ty);
\* bo: the ByteOrder type parameter T (NetworkEndian is BigEndian, and
\* NativeEndian is one of the two).
Fmt(ty, w, cw, bo) == [ty |-> ty, w |-> w, cw |-> cw, bo |-> bo]

Orders == {"BE", "LE"}

MultiTypes ==
    { <<"f", 4, 4>>, <<"f", 8, 8>>,
      <<"u", 2, 2>>, <<"u", 3, 4>>, <<"u", 4, 4>>, <<"u", 6, 8>>,
      <<"u", 8, 8>>, <<"u", 16, 16>>,
      <<"i", 2, 2>>, <<"i", 3, 4>>, <<"i", 4, 4>>, <<"i", 6, 8>>,
      <<"i", 8, 8>>, <<"i", 16, 16>> }

MultiFormats == { Fmt(t[1], t[2], t[3], bo) : t \in MultiTypes, bo \in Orders }

ByteFormats == { Fmt("u", 1, 1, "BE"), Fmt("i", 1, 1, "BE") }

\* the widths of the types of which a channel sees several operations in a
\* row
RunWidths == {1, 2}

\* ------------------------------------------------------------------ codec
\* byteorder::ByteOrder::write_uint's assertion pack_size(n) <= nbytes: an
\* unsigned value written in fewer bytes than its carrier must fit them.
\* write_int masks the sign extension off first (unextend_sign).
Fits(fmt, v) == fmt.ty = "i" \/ \A k \in (fmt.w + 1)..fmt.cw : v[k] = 0

\* variant of Encode: the ByteOrder parameter is ignored
EncodeNative(fmt, v) == SubSeq(v, 1, fmt.w)

\* T::$writer(&mut buf[..], value): the w low-order bytes of the value,
\* most significant first for BigEndian, least significant first for
\* LittleEndian.
Encode(fmt, v) ==
    IF fmt.bo = "BE" THEN Rev(SubSeq(v, 1, fmt.w)) ELSE SubSeq(v, 1, fmt.w)

\* variant of Decode: the signed reader widens as the unsigned one does
DecodeZeroExtends(fmt, buf) ==
    LET d == IF fmt.bo = "BE" THEN Rev(buf) ELSE buf
    IN  d \o Fill(fmt.cw - fmt.w, 0)

\* T::$reader(&buf[..]): the value of the w wire bytes, widened to the
\* carrier type: zero-extended, or sign-extended for a signed type.
Decode(fmt, buf) ==
    LET d == IF fmt.bo = "BE" THEN Rev(buf) ELSE buf
        ext == IF fmt.ty = "i" /\ d[fmt.w] >= 128 THEN 255 ELSE 0
    IN  d \o Fill(fmt.cw - fmt.w, ext)

\* `this.1 as u8` of writer8!: the two's-complement byte of an 8-bit value
AsU8(x) == x % 256

\* variant of AsTy: the byte is not reinterpreted as signed
AsTyUnsigned(fmt, b) == b

\* `buf[0] as $ty` of reader8!
AsTy(fmt, b) == IF fmt.ty = "i" /\ b >= 128 THEN b - 256 ELSE b

\* the integer a value stands for (usable where it fits the model's integers)
RECURSIVE Mag(_, _)
Mag(d, flip) ==
    IF d = <<>> THEN 0
    ELSE (IF flip THEN 255 - d[1] ELSE d[1]) + 256 * Mag(Tail(d), flip)

ToInt(fmt, v) ==
    IF fmt.ty = "i" /\ v[fmt.cw] >= 128 THEN 0 - (Mag(v, TRUE) + 1)
    ELSE Mag(v, FALSE)

\* a value given by its decimal digits, most significant first
RECURSIVE MulAdd(_, _, _)
MulAdd(d, m, a) ==
    IF d = <<>> THEN <<>>
    ELSE LET x == d[1] * m + a
         IN  <<x % 256>> \o MulAdd(Tail(d), m, x \div 256)

RECURSIVE FromDec(_, _)
FromDec(dec, cw) ==
    IF dec = <<>> THEN Fill(cw, 0)
    ELSE MulAdd(FromDec(SubSeq(dec, 1, Len(dec) - 1), cw), 10, dec[Len(dec)])

\* ----------------------------------------------------------------- inputs
\* values handed to the write methods: zero, the minimum and the maximum of
\* the wire width, a value whose bytes are all different, and the values of
\* the documentation's examples
ZeroVal(fmt) == Fill(fmt.cw, 0)

MaxVal(fmt) ==
    IF fmt.ty = "i"
    THEN Fill(fmt.w - 1, 255) \o <<127>> \o Fill(fmt.cw - fmt.w, 0)
    ELSE Fill(fmt.w, 255) \o Fill(fmt.cw - fmt.w, 0)

MinVal(fmt) ==
    IF fmt.ty = "i"
    THEN Fill(fmt.w - 1, 0) \o <<128>> \o Fill(fmt.cw - fmt.w, 255)
    ELSE ZeroVal(fmt)

Distinct(fmt) == [k \in 1..fmt.cw |-> IF k <= fmt.w THEN k ELSE 0]

DocVals(fmt) ==
    IF fmt.ty = "u" /\ fmt.w = 2 THEN {FromNat(517, 2), FromNat(768, 2)}
    ELSE IF fmt.ty = "u" /\ fmt.w = 4 THEN {FromNat(1205419366, 4)}
    ELSE {}

Values(fmt) ==
    IF fmt.w = 1
    THEN (IF fmt.ty = "i" THEN {-128, -5, 0, 127} ELSE {0, 2, 127, 255})
    ELSE {ZeroVal(fmt), MinVal(fmt), MaxVal(fmt), Distinct(fmt)} \cup DocVals(fmt)

\* byte streams a read channel holds (the documentation's examples, and a
\* stream long enough for a 128-bit value followed by another value)
Stream16 == <<2, 5, 3, 0>>
Stream24 == <<255, 122, 51>>
Stream64 == <<0, 3, 67, 149, 77, 96, 134, 131>>
StreamLong == [k \in 1..18 |-> 160 + k]

Streams == {Stream16, Stream24, Stream64, StreamLong}

\* io::ErrorKind of a transport fault the channel reports
Faults == {"Interrupted", "BrokenPipe"}

\* one response of poll_read / poll_write
RPending == [t |-> "Pending", n |-> 0, e |-> "-"]
RErr(e) == [t |-> "Err", n |-> 0, e |-> e]
ROk(n) == [t |-> "Ok", n |-> n, e |-> "-"]

\* counts a channel that breaks its contract may report for a range of
\* len bytes: more than offered, and counts that `as u8` changes or that
\* overflow the u8 counter
Lies(len) == {len + 1, 255, 256}

\* the return of poll(): Poll::Pending, Poll::Ready(Ok(val)),
\* Poll::Ready(Err(err)), a panic, or none yet (not polled / inside poll)
NoRet == [tag |-> "none", val |-> <<>>, err |-> "-"]
RetPending == [tag |-> "Pending", val |-> <<>>, err |-> "-"]
RetOk(v) == [tag |-> "Ok", val |-> v, err |-> "-"]
RetErr(e) == [tag |-> "Err", val |-> <<>>, err |-> e]
RetPanic == [tag |-> "Panic", val |-> <<>>, err |-> "-"]

\* ------------------------------------------------------------------ state
VARIABLES
    acc,    \* acc[i]: the accumulator (future) in flight on channel i
    pc,     \* pc[i]: "idle" outside poll(), "loop" inside it, "panic"
    ret,    \* ret[i]: what the last poll() of acc[i] returned
    chan,   \* chan[i]: the channel: bytes to read, read position, bytes written
    hist,   \* hist[i]: bookkeeping of the run (no part of the program)
    wake    \* wake[i]: the waker of the task, as channel i holds it: "none",
            \* "reg" (kept by a not-ready channel), "woken" (signalled)

vars == <<acc, pc, ret, chan, hist, wake>>

NoAcc == [kind |-> "none", fmt |-> Fmt("u", 1, 1, "BE"), buf |-> <<>>,
          cnt |-> 0, val |-> 0]

\* $name::new(r) of reader!, and the tuple struct $name(R) of reader8!
NewReader(fmt) ==
    IF fmt.w = 1
    THEN [kind |-> "read8", fmt |-> fmt, buf |-> <<>>, cnt |-> 0, val |-> 0]
    ELSE [kind |-> "read", fmt |-> fmt, buf |-> Fill(fmt.w, 0), cnt |-> 0,
          val |-> 0]

\* variant: new() leaves the zeroed buffer: the value is never encoded
NewWriterZeroed(fmt, v) ==
    IF fmt.w = 1
    THEN [kind |-> "write8", fmt |-> fmt, buf |-> <<>>, cnt |-> 0, val |-> 0]
    ELSE [kind |-> "write", fmt |-> fmt, buf |-> Fill(fmt.w, 0), cnt |-> 0,
          val |-> 0]

\* $name::new::<T>(w, value) of writer!, and $name(W, $ty) of writer8!
NewWriter(fmt, v) ==
    IF fmt.w = 1
    THEN [kind |-> "write8", fmt |-> fmt, buf |-> <<>>, cnt |-> 0, val |-> v]
    ELSE [kind |-> "write", fmt |-> fmt, buf |-> Encode(fmt, v), cnt |-> 0,
          val |-> 0]

\* the synchronous Write::write_all (Read::read_exact) run over the same
\* responses
WaInit == [st |-> "run", n |-> 0, err |-> "-"]

NoBack == [on |-> FALSE, fmt |-> Fmt("u", 1, 1, "BE"), v |-> <<>>]

NoHist == [opn |-> 0, fmt |-> Fmt("u", 1, 1, "BE"), polls |-> 0,
           pends |-> 0, oks |-> 0, errs |-> 0, zeros |-> 0,
           last |-> RPending, lies |-> 0, start |-> 0, sink0 |-> 0,
           arg |-> <<>>, wa |-> WaInit, re |-> WaInit, back |-> NoBack,
           trk |-> FALSE, att |-> 0, cnt0 |-> 0]

InitOn(I) ==
    /\ acc = [i \in Ids |-> NoAcc]
    /\ pc = [i \in Ids |-> "idle"]
    /\ ret = [i \in Ids |-> NoRet]
    /\ \E d \in [I -> Streams \cup {<<>>}] :
          chan = [i \in Ids |-> [data |-> IF i \in I THEN d[i] ELSE <<>>,
                                 rpos |-> 0, sink |-> <<>>]]
    /\ hist = [i \in Ids |-> NoHist]
    /\ wake = [i \in Ids |-> "none"]

\* ------------------------------------------------- the accumulator's parts
\* variant of Out: a single-byte decode hands a fatal fault to its caller as
\* an error value
OutSurfaces(a, c, r, p) ==
    IF a.kind = "read8" /\ p = "panic"
    THEN [a |-> a, c |-> c, ret |-> RetErr("InvalidData"), pc |-> "idle"]
    ELSE [a |-> a, c |-> c, ret |-> r, pc |-> p]

\* what one channel attempt leaves: the accumulator, the channel, what
\* poll() returns (NoRet while it goes on) and where control is
Out(a, c, r, p) == [a |-> a, c |-> c, ret |-> r, pc |-> p]

IsRead(a) == a.kind \in {"read", "read8"}
IsWrite(a) == a.kind \in {"write", "write8"}
IsMulti(a) == a.kind \in {"read", "write"}

\* variant: a decode hands its whole buffer to the channel at every attempt
OfferedWhole(a) ==
    IF a.kind = "read" THEN a.fmt.w
    ELSE IF IsMulti(a) THEN a.fmt.w - a.cnt ELSE 1

\* the range handed to the channel: buf[read..] / buf[written..], or the
\* one-byte buffer of the 8-bit futures
Offered(a) == IF IsMulti(a) THEN a.fmt.w - a.cnt ELSE 1

\* `self.read == $bytes as u8`, `self.written == $bytes as u8`
Filled(a) == a.cnt = a.fmt.w

\* variant of More: the loop stops one byte short
MoreButOne(a) == a.cnt < a.fmt.w - 1

\* `while this.read < $bytes as u8`, `while this.written < $bytes as u8`
More(a) == a.cnt < a.fmt.w

\* variant of AsCount: the count is narrowed to four bits
AsCountNibble(n) == n % 16

\* `n as u8`
AsCount(n) == n % 256

\* bytes the read channel still holds
Left(c) == Len(c.data) - c.rpos

\* variant of Cap: a decode hands the channel its whole buffer again
CapWhole(a, c) == IF IsRead(a) THEN Min(a.fmt.w, Left(c)) ELSE Offered(a)

\* the most a channel that keeps its contract reports for this attempt
Cap(a, c) == IF IsRead(a) THEN Min(Offered(a), Left(c)) ELSE Offered(a)

\* variant: the whole buffer is offered instead of buf[read..]
ReceiveAtHead(a, c, m) ==
    [a EXCEPT !.buf = [k \in 1..Len(a.buf) |->
        IF k <= m THEN c.data[c.rpos + k] ELSE a.buf[k]]]

\* poll_read copies m bytes of the stream into the head of buf[read..]
Receive(a, c, m) ==
    [a EXCEPT !.buf = [k \in 1..Len(a.buf) |->
        IF a.cnt < k /\ k <= a.cnt + m THEN c.data[c.rpos + (k - a.cnt)]
        ELSE a.buf[k]]]

\* variant: the bytes are taken from the head of the buffer
AcceptFromHead(a, c, m) ==
    [c EXCEPT !.sink = @ \o SubSeq(a.buf, 1, m)]

\* poll_write takes m bytes from the head of buf[written..]
Accept(a, c, m) ==
    [c EXCEPT !.sink = @ \o SubSeq(a.buf, a.cnt + 1, a.cnt + m)]

\* variant: a suspension starts the buffer over
ReadPendingRestart(a, c) == Out([a EXCEPT !.cnt = 0], c, RetPending, "idle")

\* reader!: Poll::Pending => return Poll::Pending
ReadPending(a, c) == Out(a, c, RetPending, "idle")

\* variant of ReadErr: an Interrupted fault is asked again within the poll()
ReadErrRetry(a, c, e) ==
    IF e = "Interrupted" THEN Out(a, c, NoRet, "loop")
    ELSE Out(a, c, RetErr(e), "idle")

\* reader!: Poll::Ready(Err(e)) => return Poll::Ready(Err(e.into()))
ReadErr(a, c, e) == Out(a, c, RetErr(e), "idle")

\* variant: zero bytes delivered is taken for "try again"
ReadZeroSuspends(a, c) == Out(a, c, RetPending, "idle")

\* reader!: Poll::Ready(Ok(0)) => return Err(UnexpectedEof)
ReadZero(a, c) == Out(a, c, RetErr("UnexpectedEof"), "idle")

\* variant: after a delivery that leaves the buffer short, poll() returns
\* Poll::Pending instead of asking the channel again
ReadOkYields(a, c, n, wrap) ==
    LET m == Min(n, Cap(a, c))
        a1 == Receive(a, c, m)
        c1 == [c EXCEPT !.rpos = @ + m]
        s == a.cnt + AsCount(n)
        a2 == [a1 EXCEPT !.cnt = s % 256]
    IN  IF s > 255 /\ ~wrap THEN Out(a1, c1, RetPanic, "panic")
        ELSE IF More(a2) THEN Out(a2, c1, RetPending, "idle")
        ELSE Out(a2, c1, RetOk(Decode(a2.fmt, a2.buf)), "idle")

\* reader!: Poll::Ready(Ok(n)) => this.read += n as u8, then the loop test
\* and, past the loop, Poll::Ready(Ok(T::$reader(&this.buf[..]))).  A sum
\* above 255 panics in a build with overflow checks and wraps in one without.
ReadOk(a, c, n, wrap) ==
    LET m == Min(n, Cap(a, c))
        a1 == Receive(a, c, m)
        c1 == [c EXCEPT !.rpos = @ + m]
        s == a.cnt + AsCount(n)
        a2 == [a1 EXCEPT !.cnt = s % 256]
    IN  IF s > 255 /\ ~wrap THEN Out(a1, c1, RetPanic, "panic")
        ELSE IF More(a2) THEN Out(a2, c1, NoRet, "loop")
        ELSE Out(a2, c1, RetOk(Decode(a2.fmt, a2.buf)), "idle")

\* variant of ReadAttempt: a not-ready response is asked again at once
ReadAttemptSpins(a, c, r, wrap) ==
    IF r.t = "Pending" THEN Out(a, c, NoRet, "loop")
    ELSE IF r.t = "Err" THEN ReadErr(a, c, r.e)
    ELSE IF r.n = 0 THEN ReadZero(a, c)
    ELSE ReadOk(a, c, r.n, wrap)

\* one iteration of reader!'s loop: the match on poll_read's response
ReadAttempt(a, c, r, wrap) ==
    IF r.t = "Pending" THEN ReadPending(a, c)
    ELSE IF r.t = "Err" THEN ReadErr(a, c, r.e)
    ELSE IF r.n = 0 THEN ReadZero(a, c)
    ELSE ReadOk(a, c, r.n, wrap)

\* variant of WritePending: a suspension starts the encode over
WritePendingRestart(a, c) == Out([a EXCEPT !.cnt = 0], c, RetPending, "idle")

\* writer!: Poll::Pending => return Poll::Pending
WritePending(a, c) == Out(a, c, RetPending, "idle")

\* variant of WriteErr: an Interrupted fault is retried within the poll()
WriteErrRetry(a, c, e) ==
    IF e = "Interrupted" THEN Out(a, c, NoRet, "loop")
    ELSE Out(a, c, RetErr(e), "idle")

\* writer!: Poll::Ready(Err(e)) => return Poll::Ready(Err(e.into()))
WriteErr(a, c, e) == Out(a, c, RetErr(e), "idle")

\* variant of WriteOk: the count is assigned to the counter, not added
WriteOkAssigns(a, c, n, wrap) ==
    LET m == Min(n, Cap(a, c))
        c1 == Accept(a, c, m)
        s == AsCount(n)
        a2 == [a EXCEPT !.cnt = s % 256]
    IN  IF s > 255 /\ ~wrap THEN Out(a, c1, RetPanic, "panic")
        ELSE IF More(a2) THEN Out(a2, c1, NoRet, "loop")
        ELSE Out(a2, c1, RetOk(<<>>), "idle")

\* writer!: Poll::Ready(Ok(n)) => this.written += n as u8 (n = 0 included),
\* then the loop test and, past the loop, Poll::Ready(Ok(()))
WriteOk(a, c, n, wrap) ==
    LET m == Min(n, Cap(a, c))
        c1 == Accept(a, c, m)
        s == a.cnt + AsCount(n)
        a2 == [a EXCEPT !.cnt = s % 256]
    IN  IF s > 255 /\ ~wrap THEN Out(a, c1, RetPanic, "panic")
        ELSE IF More(a2) THEN Out(a2, c1, NoRet, "loop")
        ELSE Out(a2, c1, RetOk(<<>>), "idle")

\* one iteration of writer!'s loop: the match on poll_write's response
WriteAttempt(a, c, r, wrap) ==
    IF r.t = "Pending" THEN WritePending(a, c)
    ELSE IF r.t = "Err" THEN WriteErr(a, c, r.e)
    ELSE WriteOk(a, c, r.n, wrap)

\* variant of Read8Attempt: zero bytes delivered is taken for "not ready",
\* as writer8! takes zero bytes accepted
Read8ZeroPending(a, c, r) ==
    LET m == Min(r.n, Cap(a, c))
        c1 == [c EXCEPT !.rpos = @ + m]
        b == IF m = 1 THEN c.data[c.rpos + 1] ELSE 0
    IN  IF r.t = "Pending" THEN Out(a, c, RetPending, "idle")
        ELSE IF r.t = "Err" THEN Out(a, c, RetErr(r.e), "idle")
        ELSE IF r.n = 0 THEN Out(a, c, RetPending, "idle")
        ELSE IF r.n = 1 THEN Out(a, c1, RetOk(AsTy(a.fmt, b)), "idle")
        ELSE Out(a, c1, RetPanic, "panic")

\* reader8!: the match on the single poll_read(cx, &mut buf[..]), buf = [0; 1]
Read8Attempt(a, c, r) ==
    LET m == Min(r.n, Cap(a, c))
        c1 == [c EXCEPT !.rpos = @ + m]
        b == IF m = 1 THEN c.data[c.rpos + 1] ELSE 0
    IN  IF r.t = "Pending" THEN Out(a, c, RetPending, "idle")
        ELSE IF r.t = "Err" THEN Out(a, c, RetErr(r.e), "idle")
        ELSE IF r.n = 0 THEN Out(a, c, RetErr("UnexpectedEof"), "idle")
        ELSE IF r.n = 1 THEN Out(a, c1, RetOk(AsTy(a.fmt, b)), "idle")
        ELSE Out(a, c1, RetPanic, "panic")

\* variant of Write8Attempt: any positive count is taken for the byte sent
Write8AnyCount(a, c, r) ==
    LET c1 == [c EXCEPT !.sink = @ \o <<AsU8(a.val)>>]
    IN  IF r.t = "Pending" THEN Out(a, c, RetPending, "idle")
        ELSE IF r.t = "Err" THEN Out(a, c, RetErr(r.e), "idle")
        ELSE IF r.n = 0 THEN Out(a, c, RetPending, "idle")
        ELSE Out(a, c1, RetOk(<<>>), "idle")

\* writer8!: the match on the single poll_write(cx, &buf[..]),
\* buf = [this.1 as u8]
Write8Attempt(a, c, r) ==
    LET c1 == [c EXCEPT !.sink = @ \o <<AsU8(a.val)>>]
    IN  IF r.t = "Pending" THEN Out(a, c, RetPending, "idle")
        ELSE IF r.t = "Err" THEN Out(a, c, RetErr(r.e), "idle")
        ELSE IF r.n = 0 THEN Out(a, c, RetPending, "idle")
        ELSE IF r.n = 1 THEN Out(a, c1, RetOk(<<>>), "idle")
        ELSE Out(a, c1, RetPanic, "panic")

\* variant of Attempt: a decode takes a delivery short of the range it
\* offered for the end of the stream
AttemptExact(a, c, r, wrap) ==
    IF a.kind = "read" /\ r.t = "Ok" /\ 0 < r.n /\ r.n < Offered(a)
    THEN Out(a, c, RetErr("UnexpectedEof"), "idle")
    ELSE IF a.kind = "read" THEN ReadAttempt(a, c, r, wrap)
    ELSE IF a.kind = "write" THEN WriteAttempt(a, c, r, wrap)
    ELSE IF a.kind = "read8" THEN Read8Attempt(a, c, r)
    ELSE Write8Attempt(a, c, r)

\* one channel attempt of poll(), by the kind of future
Attempt(a, c, r, wrap) ==
    IF a.kind = "read" THEN ReadAttempt(a, c, r, wrap)
    ELSE IF a.kind = "write" THEN WriteAttempt(a, c, r, wrap)
    ELSE IF a.kind = "read8" THEN Read8Attempt(a, c, r)
    ELSE Write8Attempt(a, c, r)

\* poll() of a multi-byte future that makes no channel attempt: the early
\* return of a filled buffer, or the loop not entered
Ready(a) ==
    IF a.kind = "read" THEN RetOk(Decode(a.fmt, a.buf)) ELSE RetOk(<<>>)

\* ------------------------------------------------------------ the channel
\* the responses the channel may give to an attempt of accumulator a with
\* bookkeeping h: not ready, a fault, a count within its contract (zero
\* included) or, of a channel that may break its contract (lie), a count
\* outside it
Responses(a, c, h, lie) ==
    {RPending} \cup {RErr(e) : e \in Faults}
    \cup {ROk(n) : n \in 1..Cap(a, c)}
    \cup {ROk(0) : z \in {0} \ (IF IsWrite(a) /\ h.zeros >= MaxZero THEN {0} ELSE {})}
    \cup (IF lie /\ h.lies < MaxLies THEN {ROk(n) : n \in Lies(Offered(a))} ELSE {})

\* the builds in which the step may run: with and without overflow checks
\* where the u8 addition overflows, else the two do not differ
Wraps(a, r) ==
    IF IsMulti(a) /\ r.t = "Ok" /\ a.cnt + AsCount(r.n) > 255
    THEN BOOLEAN ELSE {TRUE}

\* std::io::Write::write_all over the same responses (a blocking writer has
\* no not-ready response): zero accepted is WriteZero, Interrupted is
\* retried, any other fault is returned, and it ends once w bytes are taken
WriteAllStep(wa, w, r) ==
    IF wa.st # "run" \/ r.t = "Pending" THEN wa
    ELSE IF r.t = "Err"
    THEN (IF r.e = "Interrupted" THEN wa
          ELSE [wa EXCEPT !.st = "err", !.err = r.e, !.n = 0])
    ELSE IF r.n = 0 THEN [wa EXCEPT !.st = "err", !.err = "WriteZero", !.n = 0]
    ELSE IF wa.n + r.n >= w THEN [wa EXCEPT !.st = "ok", !.n = w]
    ELSE [wa EXCEPT !.n = @ + r.n]

\* std::io::Read::read_exact over the same responses: a zero-length read
\* before the w bytes are there is UnexpectedEof, Interrupted is retried,
\* any other fault is returned, and it ends once w bytes are read
ReadExactStep(re, w, r) ==
    IF re.st # "run" \/ r.t = "Pending" THEN re
    ELSE IF r.t = "Err"
    THEN (IF r.e = "Interrupted" THEN re
          ELSE [re EXCEPT !.st = "err", !.err = r.e, !.n = 0])
    ELSE IF r.n = 0
    THEN [re EXCEPT !.st = "err", !.err = "UnexpectedEof", !.n = 0]
    ELSE IF re.n + r.n >= w THEN [re EXCEPT !.st = "ok", !.n = w]
    ELSE [re EXCEPT !.n = @ + r.n]

\* the bookkeeping after a channel attempt that left o; first: the attempt
\* is the first of its poll().  pends counts the not-ready responses, oks
\* and errs the polls that returned Ready(Ok) and Ready(Err); of a future
\* whose attempts are counted (trk), att is the number of attempts of the
\* poll() in progress or last returned, cnt0 the counter at its entry.
Note(h, a, c, r, first, o) ==
    [h EXCEPT !.polls = IF first THEN @ + 1 ELSE @,
              !.pends = IF r.t = "Pending" THEN @ + 1 ELSE @,
              !.oks = IF o.ret.tag = "Ok" THEN @ + 1 ELSE @,
              !.errs = IF o.ret.tag = "Err" THEN @ + 1 ELSE @,
              !.last = r,
              !.lies = IF r.t = "Ok" /\ r.n > Cap(a, c) THEN @ + 1 ELSE @,
              !.zeros = IF IsWrite(a) /\ r = ROk(0) THEN @ + 1 ELSE @,
              !.wa = IF IsWrite(a) THEN WriteAllStep(@, a.fmt.w, r) ELSE @,
              !.re = IF IsRead(a) THEN ReadExactStep(@, a.fmt.w, r) ELSE @,
              !.att = IF ~h.trk THEN @ ELSE IF first THEN 1 ELSE @ + 1,
              !.cnt0 = IF h.trk /\ first THEN a.cnt ELSE @]

\* ---------------------------------------------------------------- actions
\* poll_read(cx, ..) / poll_write(cx, ..): a channel that answers
\* Poll::Pending keeps cx.waker() to signal it later; one that answers
\* Poll::Ready keeps none
Waker(r) == IF r.t = "Pending" THEN "reg" ELSE "none"

\* variant of Step: the futures of one type share buffer and counter
StepShared(i, r, wrap, first) ==
    LET o == Attempt(acc[i], chan[i], r, wrap)
    IN  /\ wake' = [wake EXCEPT ![i] = Waker(r)]
        /\ acc' = [j \in Ids |->
                     IF j = i THEN o.a
                     ELSE IF acc[j].kind = o.a.kind /\ acc[j].fmt = o.a.fmt
                     THEN [acc[j] EXCEPT !.buf = o.a.buf, !.cnt = o.a.cnt]
                     ELSE acc[j]]
        /\ chan' = [chan EXCEPT ![i] = o.c]
        /\ ret' = [ret EXCEPT ![i] = o.ret]
        /\ pc' = [pc EXCEPT ![i] = o.pc]
        /\ hist' = [hist EXCEPT ![i] = Note(@, acc[i], chan[i], r, first, o)]

Step(i, r, wrap, first) ==
    LET o == Attempt(acc[i], chan[i], r, wrap)
    IN  /\ wake' = [wake EXCEPT ![i] = Waker(r)]
        /\ acc' = [acc EXCEPT ![i] = o.a]
        /\ chan' = [chan EXCEPT ![i] = o.c]
        /\ ret' = [ret EXCEPT ![i] = o.ret]
        /\ pc' = [pc EXCEPT ![i] = o.pc]
        /\ hist' = [hist EXCEPT ![i] = Note(@, acc[i], chan[i], r, first, o)]

\* the types of the next operation on channel i: any type for the first;
\* the method is then called again, up to MaxOps times in all, for the
\* 8-bit and 16-bit types
FormatsAt(i) ==
    IF hist[i].opn = 0 THEN MultiFormats \cup ByteFormats
    ELSE IF hist[i].fmt.w \in RunWidths /\ hist[i].opn < MaxOps
    THEN {hist[i].fmt}
    ELSE {}

\* the bookkeeping of a new future of type fmt on channel i
Fresh(i, fmt) ==
    [NoHist EXCEPT !.opn = hist[i].opn + 1,
                   !.fmt = fmt,
                   !.start = chan[i].rpos,
                   !.sink0 = Len(chan[i].sink)]

\* the read methods (read_impl!, read_u8, read_i8): a new future on channel i
StartRead(i) ==
    /\ acc[i].kind = "none"
    /\ chan[i].data # <<>>
    /\ \E fmt \in FormatsAt(i) :
          /\ acc' = [acc EXCEPT ![i] = NewReader(fmt)]
          /\ hist' = [hist EXCEPT ![i] = Fresh(i, fmt)]
    /\ ret' = [ret EXCEPT ![i] = NoRet]
    /\ UNCHANGED <<pc, chan, wake>>

\* the write methods (write_impl!, write_u8, write_i8)
StartWrite(i) ==
    /\ acc[i].kind = "none"
    /\ chan[i].data = <<>>
    /\ \E fmt \in FormatsAt(i) : \E v \in Values(fmt) :
          /\ acc' = [acc EXCEPT ![i] = NewWriter(fmt, v)]
          /\ hist' = [hist EXCEPT ![i] = [Fresh(i, fmt) EXCEPT !.arg = v]]
    /\ ret' = [ret EXCEPT ![i] = NoRet]
    /\ UNCHANGED <<pc, chan, wake>>

\* variant of PollReady: a future polled after it has completed starts over
PollReadyRestarts(i) ==
    /\ IsMulti(acc[i])
    /\ pc[i] = "idle"
    /\ hist[i].polls < MaxPolls
    /\ ~More(acc[i])
    /\ acc' = [acc EXCEPT ![i].cnt = 0]
    /\ ret' = [ret EXCEPT ![i] = RetPending]
    /\ hist' = [hist EXCEPT ![i].polls = @ + 1]
    /\ UNCHANGED <<pc, chan, wake>>

\* poll() of a multi-byte future whose counter is not below the width:
\* it returns Ready without a channel attempt
PollReady(i) ==
    /\ IsMulti(acc[i])
    /\ pc[i] = "idle"
    /\ hist[i].polls < MaxPolls
    /\ ~More(acc[i])
    /\ ret' = [ret EXCEPT ![i] = Ready(acc[i])]
    /\ hist' = [hist EXCEPT ![i].polls = @ + 1, ![i].oks = @ + 1,
                            ![i].att = 0,
                            ![i].cnt0 = IF hist[i].trk THEN acc[i].cnt ELSE @]
    /\ UNCHANGED <<acc, pc, chan, wake>>

\* poll() up to the return of its first channel attempt
Poll(i, lie) ==
    /\ acc[i].kind # "none"
    /\ pc[i] = "idle"
    /\ hist[i].polls < MaxPolls
    /\ IsMulti(acc[i]) => More(acc[i])
    /\ \E r \in Responses(acc[i], chan[i], hist[i], lie) :
          \E wrap \in Wraps(acc[i], r) : Step(i, r, wrap, TRUE)

\* the next iteration of the loop of a multi-byte poll()
Continue(i, lie) ==
    /\ pc[i] = "loop"
    /\ \E r \in Responses(acc[i], chan[i], hist[i], lie) :
          \E wrap \in Wraps(acc[i], r) : Step(i, r, wrap, FALSE)

\* variant of Drop: the bytes an unfinished future has taken are handed back
\* to the channel
DropRewinds(i) ==
    /\ acc[i].kind # "none"
    /\ pc[i] # "loop"
    /\ acc' = [acc EXCEPT ![i] = NoAcc]
    /\ pc' = [pc EXCEPT ![i] = "idle"]
    /\ hist' = [hist EXCEPT ![i] = [NoHist EXCEPT !.opn = hist[i].opn,
                                                   !.fmt = hist[i].fmt]]
    /\ ret' = [ret EXCEPT ![i] = NoRet]
    /\ wake' = [wake EXCEPT ![i] = "none"]
    /\ chan' = [chan EXCEPT ![i].rpos =
                  IF acc[i].kind = "read" /\ More(acc[i])
                  THEN hist[i].start ELSE @]

\* the future is dropped (after its result, or before: a cancellation);
\* what its last poll() returned goes with it
Drop(i) ==
    /\ acc[i].kind # "none"
    /\ pc[i] # "loop"
    /\ acc' = [acc EXCEPT ![i] = NoAcc]
    /\ pc' = [pc EXCEPT ![i] = "idle"]
    /\ hist' = [hist EXCEPT ![i] = [NoHist EXCEPT !.opn = hist[i].opn,
                                                   !.fmt = hist[i].fmt]]
    /\ ret' = [ret EXCEPT ![i] = NoRet]
    /\ wake' = [wake EXCEPT ![i] = "none"]
    /\ UNCHANGED chan

\* rtt! of tests/futures.rs: once the write into a fresh Vec has returned
\* Ok, the read method of the same type is called on the bytes written
Rtt(i) ==
    /\ IsWrite(acc[i])
    /\ pc[i] = "idle"
    /\ ret[i].tag = "Ok"
    /\ hist[i].sink0 = 0
    /\ acc' = [acc EXCEPT ![i] = NewReader(acc[i].fmt)]
    /\ chan' = [chan EXCEPT ![i] = [data |-> chan[i].sink, rpos |-> 0,
                                    sink |-> chan[i].sink]]
    /\ ret' = [ret EXCEPT ![i] = NoRet]
    /\ hist' = [hist EXCEPT ![i] =
                  [NoHist EXCEPT !.opn = MaxOps,
                                 !.back = [on |-> TRUE, fmt |-> acc[i].fmt,
                                           v |-> hist[i].arg]]]
    /\ UNCHANGED <<pc, wake>>

\* ---------------------------------------------------------- specifications
Init == InitOn({1})

\* operations in a row on one channel that keeps its contract, and the
\* round trip of a write
Next ==
    \/ StartRead(1)
    \/ StartWrite(1)
    \/ PollReady(1)
    \/ Poll(1, FALSE)
    \/ Continue(1, FALSE)
    \/ Drop(1)
    \/ Rtt(1)

Spec == Init /\ [][Next]_vars

\* ---------------------------------------------- the wake-driven scheduler
\* the responses of a channel that settles: not ready (or, to a single-byte
\* encode, ready with zero bytes accepted) fewer than MaxPolls times in
\* all, no fault, no end of stream, and from then on a positive count
Settling(a, c, h) ==
    {ROk(n) : n \in 1..Cap(a, c)}
    \cup (IF h.pends + h.zeros < MaxPolls - 1
          THEN {RPending} \cup (IF a.kind = "write8" THEN {ROk(0)} ELSE {})
          ELSE {})

\* the task is polled when it is spawned and then only once the waker it
\* handed to the channel has been signalled
PollWoken(i) ==
    /\ acc[i].kind # "none"
    /\ pc[i] = "idle"
    /\ hist[i].polls = 0 \/ wake[i] = "woken"
    /\ IsMulti(acc[i]) => More(acc[i])
    /\ \E r \in Settling(acc[i], chan[i], hist[i]) :
          \E wrap \in Wraps(acc[i], r) : Step(i, r, wrap, TRUE)

ContinueWoken(i) ==
    /\ pc[i] = "loop"
    /\ \E r \in Settling(acc[i], chan[i], hist[i]) :
          \E wrap \in Wraps(acc[i], r) : Step(i, r, wrap, FALSE)

\* the channel becomes ready and signals the waker it kept
Wake(i) ==
    /\ wake[i] = "reg"
    /\ wake' = [wake EXCEPT ![i] = "woken"]
    /\ UNCHANGED <<acc, pc, ret, chan, hist>>

NextWake ==
    \/ StartRead(1)
    \/ StartWrite(1)
    \/ PollWoken(1)
    \/ ContinueWoken(1)
    \/ Wake(1)

\* a fair scheduler, and a channel that signals every waker it keeps
SpecWake ==
    /\ Init
    /\ [][NextWake]_vars
    /\ WF_vars(PollWoken(1))
    /\ WF_vars(ContinueWoken(1))
    /\ WF_vars(Wake(1))

\* ------------------------------------- a channel that breaks its contract
\* one operation, of an 8-bit, 16-bit or 24-bit type, on a channel that may
\* report, up to MaxLies times, a count beyond the range it was offered
LieFormats == ByteFormats \cup {f \in MultiFormats : f.w \in {2, 3}}

StartReadLie(i) == StartRead(i) /\ acc'[i].fmt \in LieFormats

StartWriteLie(i) == StartWrite(i) /\ acc'[i].fmt \in LieFormats

NextLie ==
    \/ StartReadLie(1)
    \/ StartWriteLie(1)
    \/ PollReady(1)
    \/ Poll(1, TRUE)
    \/ Continue(1, TRUE)

SpecLie == Init /\ [][NextLie]_vars

\* ------------------------------------------------- two channels at once
\* one 16-bit operation on each of two distinct channels, a decode on the
\* first and a decode or an encode on the second, their poll() invocations
\* interleaved in any order
TwoFormats == {Fmt("u", 2, 2, "BE")}

InitTwo ==
    /\ InitOn(Ids)
    /\ chan[1].data = Stream16
    /\ chan[2].data \in {<<>>, Stream24}

NextTwo ==
    \E i \in Ids :
        \/ StartRead(i) /\ acc'[i].fmt \in TwoFormats
        \/ StartWrite(i) /\ acc'[i].fmt \in TwoFormats
        \/ PollReady(i)
        \/ Poll(i, FALSE)
        \/ Continue(i, FALSE)

SpecTwo == InitTwo /\ [][NextTwo]_vars

\* ------------------------------------------- the 24-bit and 48-bit types
\* the types written in fewer bytes than their carrier type has
OddFormats == {f \in MultiFormats : f.w < f.cw}

\* streams of the documentation's 24-bit and 48-bit examples, and 80 00 00
StreamU24 == <<0, 1, 11>>
StreamU48 == <<182, 113, 107, 220, 43, 49>>
StreamI48 == <<157, 113, 171, 231, 151, 143>>
OddStreams == {Stream24, StreamU24, <<128, 0, 0>>, StreamU48, StreamI48}

\* values of the carrier type: those of the wire range and, beyond it, the
\* least power of 256 that needs a byte more, a value with nonzero bytes
\* throughout, the carrier's all-ones and the carrier's top bit alone
WideValues(fmt) ==
    Values(fmt)
    \cup { [k \in 1..fmt.cw |-> IF k = fmt.w + 1 THEN 1 ELSE 0],
           [k \in 1..fmt.cw |-> k],
           Fill(fmt.cw, 255),
           [k \in 1..fmt.cw |-> IF k = fmt.cw THEN 128 ELSE 0] }

InitOdd ==
    /\ acc = [i \in Ids |-> NoAcc]
    /\ pc = [i \in Ids |-> "idle"]
    /\ ret = [i \in Ids |-> NoRet]
    /\ \E d \in OddStreams \cup {<<>>} :
          chan = [i \in Ids |-> [data |-> IF i = 1 THEN d ELSE <<>>,
                                 rpos |-> 0, sink |-> <<>>]]
    /\ hist = [i \in Ids |-> NoHist]
    /\ wake = [i \in Ids |-> "none"]

StartReadOdd(i) == StartRead(i) /\ acc'[i].fmt \in OddFormats

\* write_u24 / write_i24 / write_u48 / write_i48 with any value of the
\* carrier type: new() calls T::$writer, whose write_uint panics on an
\* unsigned value that does not fit the bytes (write_int masks a signed
\* one first)
StartWriteWide(i) ==
    /\ acc[i].kind = "none"
    /\ pc[i] = "idle"
    /\ chan[i].data = <<>>
    /\ \E fmt \in FormatsAt(i) \cap OddFormats : \E v \in WideValues(fmt) :
          /\ hist' = [hist EXCEPT ![i] = [Fresh(i, fmt) EXCEPT !.arg = v]]
          /\ IF Fits(fmt, v)
             THEN /\ acc' = [acc EXCEPT ![i] = NewWriter(fmt, v)]
                  /\ ret' = [ret EXCEPT ![i] = NoRet]
                  /\ pc' = pc
             ELSE /\ acc' = acc
                  /\ ret' = [ret EXCEPT ![i] = RetPanic]
                  /\ pc' = [pc EXCEPT ![i] = "panic"]
    /\ UNCHANGED <<chan, wake>>

NextOdd ==
    \/ StartReadOdd(1)
    \/ StartWriteWide(1)
    \/ PollReady(1)
    \/ Poll(1, FALSE)
    \/ Continue(1, FALSE)

SpecOdd == InitOdd /\ [][NextOdd]_vars

\* ------------------------------------------------------------ vocabulary
\* the step is a channel attempt of accumulator i (the response is then
\* hist'[i].last)
Attempted(i) ==
    /\ acc[i].kind # "none"
    /\ \/ pc[i] = "loop"
       \/ /\ pc[i] = "idle"
          /\ hist'[i].polls = hist[i].polls + 1
          /\ IsMulti(acc[i]) => More(acc[i])

\* the channel of i has kept its contract towards the accumulator in flight
Honest(i) == hist[i].lies = 0

\* what poll() returns when the channel delivers the whole width in one
\* response to a new decode accumulator of the type of acc[i], from the
\* position at which acc[i] started
SingleDelivery(i) ==
    ReadAttempt(NewReader(acc[i].fmt),
                [chan[i] EXCEPT !.rpos = hist[i].start],
                ROk(acc[i].fmt.w), TRUE).ret

\* ---------------------------------------------------------------- claims
\* C1: however the channel splits the W bytes of a multi-byte decode into
\* positive-size deliveries, once all W bytes are delivered the accumulator
\* has completed with the value a single delivery of W bytes gives.
C1_PartialDeliveries ==
    \A i \in Ids :
        (acc[i].kind = "read" /\ Honest(i)
           /\ chan[i].rpos - hist[i].start = acc[i].fmt.w)
        => (ret[i].tag = "Ok" /\ ret[i] = SingleDelivery(i))

\* C1 witness: the unsigned 64-bit big-endian value of the documentation,
\* completed in one poll() whose last delivery brought 3 of the 8 bytes
C1_Witness ==
    /\ acc[1].kind = "read"
    /\ acc[1].fmt = Fmt("u", 8, 8, "BE")
    /\ chan[1].data = Stream64
    /\ hist[1].polls = 1
    /\ hist[1].last = ROk(3)
    /\ ret[1] = RetOk(FromDec(<<9, 1, 8, 7, 3, 3, 4, 5, 7, 4, 9, 1, 5, 8, 7>>, 8))

\* the bytes channel i has taken from the accumulator in flight
Sent(i) == SubSeq(chan[i].sink, hist[i].sink0 + 1, Len(chan[i].sink))

\* the step is a channel attempt of accumulator i answered not-ready, and it
\* leaves the accumulator and the channel as they were, suspended
PendingKeeps(i) ==
    (Attempted(i) /\ hist'[i].last = RPending)
    => /\ acc'[i] = acc[i]
       /\ chan'[i] = chan[i]
       /\ ret'[i] = RetPending
       /\ pc'[i] = "idle"

\* the outcome of an operation that was suspended is the outcome without
\* suspensions: the decoded value of a single delivery, the encoded bytes
SuspendedOutcome(i) ==
    (hist[i].pends > 0 /\ Honest(i) /\ ret[i].tag = "Ok")
    => /\ acc[i].kind = "read" => ret[i] = SingleDelivery(i)
       /\ acc[i].kind = "write" => Sent(i) = Encode(acc[i].fmt, hist[i].arg)

\* C2: a not-ready response changes nothing of the accumulator (counter,
\* buffer) nor of the channel and only suspends, so not-ready responses put
\* anywhere in a response sequence leave the final outcome what it is
\* without them: the decoded value, the bytes handed to the channel.
C2_SuspensionTransparent ==
    /\ [][\A i \in Ids : PendingKeeps(i)]_vars
    /\ [](\A i \in Ids : SuspendedOutcome(i))

\* C2 witness: a decode completed in its third poll(), after two not-ready
\* responses, by a delivery of less than the width
C2_Witness ==
    /\ acc[1].kind = "read"
    /\ hist[1].pends = 2
    /\ hist[1].polls = 3
    /\ hist[1].last.t = "Ok"
    /\ hist[1].last.n < acc[1].fmt.w
    /\ ret[1].tag = "Ok"

C4_RoundTrip ==
    \A i \in Ids :
        (hist[i].back.on /\ IsRead(acc[i]) /\ ret[i].tag = "Ok")
        => (acc[i].fmt = hist[i].back.fmt /\ ret[i].val = hist[i].back.v)

\* C4 witness: the minimum of the signed 64-bit type, written little-endian
\* and read back
C4_Witness ==
    /\ hist[1].back.on
    /\ acc[1].kind = "read"
    /\ acc[1].fmt = Fmt("i", 8, 8, "LE")
    /\ ret[1] = RetOk(MinVal(acc[1].fmt))

\* C5: a decode that completes has taken exactly Width bytes from the
\* channel (1 for the 8-bit types), so the next decode starts at the next
\* unread byte: two unsigned 16-bit big-endian decodes of 02 05 03 00 yield
\* 517 and then 768.
C5_ExactWidthConsumed ==
    \A i \in Ids :
        (IsRead(acc[i]) /\ Honest(i) /\ ret[i].tag = "Ok" /\ hist[i].oks = 1)
        => /\ chan[i].rpos - hist[i].start = acc[i].fmt.w
           /\ (acc[i].fmt = Fmt("u", 2, 2, "BE") /\ chan[i].data = Stream16)
              => /\ hist[i].start = 0 => ToInt(acc[i].fmt, ret[i].val) = 517
                 /\ hist[i].start = 2 => ToInt(acc[i].fmt, ret[i].val) = 768

\* C5 witness: the second decode of the example has returned 768
C5_Witness ==
    /\ acc[1].fmt = Fmt("u", 2, 2, "BE")
    /\ acc[1].kind = "read"
    /\ chan[1].data = Stream16
    /\ hist[1].opn = 2
    /\ hist[1].start = 2
    /\ ret[1] = RetOk(FromNat(768, 2))

\* C6: at every point of a multi-byte encode the bytes the channel has taken
\* are the first `written` bytes of the encoding of the value, and on
\* Complete they are its Width bytes (for an 8-bit encode, its one byte);
\* so consecutive encodes append their encodings: 517 then 768 as unsigned
\* 16-bit little-endian gives 05 02 00 03.
C6_SentIsPrefix ==
    \A i \in Ids :
        /\ (acc[i].kind = "write" /\ Honest(i))
           => /\ acc[i].cnt <= acc[i].fmt.w
              /\ Sent(i) = SubSeq(Encode(acc[i].fmt, hist[i].arg), 1, acc[i].cnt)
              /\ ret[i].tag = "Ok"
                 => (Sent(i) = Encode(acc[i].fmt, hist[i].arg) /\ Sent(i) # <<>>)
        /\ (acc[i].kind = "write8" /\ Honest(i) /\ hist[i].oks <= 1)
           => Sent(i) = (IF hist[i].oks = 1 THEN <<AsU8(hist[i].arg)>> ELSE <<>>)
        /\ (acc[i].kind = "write" /\ acc[i].fmt = Fmt("u", 2, 2, "LE")
              /\ ret[i].tag = "Ok" /\ hist[i].arg = FromNat(768, 2)
              /\ SubSeq(chan[i].sink, 1, hist[i].sink0) = Encode(acc[i].fmt, FromNat(517, 2)))
           => chan[i].sink = <<5, 2, 0, 3>>

\* C6 witness: the second encode of the example has completed
C6_Witness ==
    /\ acc[1].kind = "write"
    /\ acc[1].fmt = Fmt("u", 2, 2, "LE")
    /\ hist[1].opn = 2
    /\ hist[1].arg = FromNat(768, 2)
    /\ ret[1].tag = "Ok"
    /\ chan[1].sink = <<5, 2, 0, 3>>

\* C7: every error is terminal for the accumulator that met it: once a
\* poll() of a decode or encode future has returned Ready(Err), no later
\* poll() of that future returns Ready(Ok), whatever the channel responds.
C7_ErrorsTerminal ==
    \A i \in Ids :
        (acc[i].kind # "none" /\ hist[i].errs > 0) => ret[i].tag # "Ok"

C9_ZeroAcceptedSuspends ==
    [][\A i \in Ids :
         (Attempted(i) /\ acc[i].kind = "write" /\ hist'[i].last = ROk(0))
         => /\ pc'[i] = "idle"
            /\ ret'[i] = RetPending
            /\ acc'[i].cnt = acc[i].cnt]_vars

\* C10: every write method returns the errors of Write::write_all over the
\* same channel responses: when the future has returned its result, it has
\* failed exactly if write_all has failed on those responses, and with the
\* same error.
C10_ErrorsOfWriteAll ==
    \A i \in Ids :
        (IsWrite(acc[i]) /\ Honest(i) /\ pc[i] = "idle"
           /\ ret[i].tag \in {"Ok", "Err"}
           /\ hist[i].oks + hist[i].errs = 1)
        => /\ (ret[i].tag = "Err") <=> (hist[i].wa.st = "err")
           /\ ret[i].tag = "Err" => ret[i].err = hist[i].wa.err

\* C11: every read method returns the errors of Read::read_exact over the
\* same channel responses: when the future has returned its result, it has
\* failed exactly if read_exact has failed on those responses, and with the
\* same error.
C11_ErrorsOfReadExact ==
    \A i \in Ids :
        (IsRead(acc[i]) /\ Honest(i) /\ pc[i] = "idle"
           /\ ret[i].tag \in {"Ok", "Err"}
           /\ hist[i].oks + hist[i].errs = 1)
        => /\ (ret[i].tag = "Err") <=> (hist[i].re.st = "err")
           /\ ret[i].tag = "Err" => ret[i].err = hist[i].re.err

\* C12: a single-byte encode of which a ready channel accepted zero bytes
\* is suspended and retried: with a scheduler that polls again only once
\* the waker was signalled, and a channel that from some point on accepts
\* the byte, every single-byte encode eventually returns Ready(Ok).
C12_ByteEncodeCompletes ==
    \A i \in Ids : (acc[i].kind = "write8") ~> (ret[i].tag = "Ok")

\* the stream of channel i holds the bytes the decode in flight needs
Enough(i) ==
    acc[i].kind = "read" => Left(chan[i]) >= acc[i].fmt.w - acc[i].cnt

\* C17: when the channel, after finitely many not-ready responses each
\* followed by a wake-up, delivers (accepts) the Width bytes in positive-size
\* chunks, without a zero-length response or a fault, then under a fair
\* scheduler a multi-byte decode (encode) eventually returns Ready(Ok).
C17_DrivenToCompletion ==
    \A i \in Ids :
        (IsMulti(acc[i]) /\ hist[i].polls = 0 /\ Enough(i))
        ~> (ret[i].tag = "Ok")

\* C17 witness: a 128-bit decode completed in its third poll(), each of the
\* two before suspended after a partial delivery and woken
C17_Witness ==
    /\ acc[1].kind = "read"
    /\ acc[1].fmt.w = 16
    /\ hist[1].polls = 3
    /\ hist[1].pends = 2
    /\ hist[1].last.n < 8
    /\ wake[1] = "none"
    /\ ret[1].tag = "Ok"

\* the range of the values of an 8-bit type
ByteRange(fmt) == IF fmt.ty = "i" THEN (0 - 128)..127 ELSE 0..255

C14_OverAcceptPanics ==
    [][\A i \in Ids :
         (Attempted(i) /\ acc[i].kind = "write8"
            /\ hist'[i].last.t = "Ok" /\ hist'[i].last.n > 1)
         => /\ ret'[i] = RetPanic
            /\ pc'[i] = "panic"
            /\ ret'[i].tag \notin {"Ok", "Err", "Pending"}]_vars

\* C14 witness: write_i8 has panicked on a channel that reported 2 bytes
\* accepted
C14_Witness ==
    /\ acc[1].kind = "write8"
    /\ acc[1].fmt.ty = "i"
    /\ hist[1].last = ROk(2)
    /\ pc[1] = "panic"
    /\ ret[1] = RetPanic

\* the step discards the decode accumulator of channel i after it has taken
\* some but not all of its bytes
Discards(i) ==
    /\ acc[i].kind = "read"
    /\ 0 < acc[i].cnt /\ acc[i].cnt < acc[i].fmt.w
    /\ acc'[i].kind = "none"

\* the step constructs a decode accumulator on channel i
StartsDecode(i) == acc[i].kind = "none" /\ IsRead(acc'[i])

\* C15: a decode accumulator discarded after it has consumed k bytes,
\* 0 < k < Width, yields no value and leaves the read position of the channel
\* advanced by k; the next decode on the channel starts at byte k, the k
\* bytes are not delivered again.
C15_DiscardLosesBytes ==
    /\ [][\A i \in Ids :
            /\ Discards(i)
               => /\ chan'[i] = chan[i]
                  /\ chan[i].rpos = hist[i].start + acc[i].cnt
                  /\ ret[i].tag # "Ok" /\ ret'[i] = NoRet
            /\ StartsDecode(i)
               => (chan'[i] = chan[i] /\ hist'[i].start = chan[i].rpos)]_vars
    /\ [](\A i \in Ids :
            (acc[i].kind = "read" /\ acc[i].fmt.w = 2 /\ hist[i].opn = 2
               /\ hist[i].start = 1 /\ ret[i].tag = "Ok" /\ hist[i].oks = 1)
            => /\ ret[i] = SingleDelivery(i)
               /\ chan[i].rpos = 3
               /\ (acc[i].fmt = Fmt("u", 2, 2, "BE") /\ chan[i].data = Stream16)
                  => ToInt(acc[i].fmt, ret[i].val) = 1283)

\* C15 witness: on 02 05 03 00 a 16-bit decode was dropped after its first
\* byte, and the next one has returned 0x0503
C15_Witness ==
    /\ acc[1].kind = "read"
    /\ acc[1].fmt = Fmt("u", 2, 2, "BE")
    /\ chan[1].data = Stream16
    /\ hist[1].opn = 2
    /\ hist[1].start = 1
    /\ ret[1] = RetOk(FromNat(1283, 2))

\* the step changes the accumulator of channel i or the record of its run
Advances(i) == acc'[i] # acc[i] \/ hist'[i] # hist[i]

\* what the operation on channel i has come to is what it comes to alone: a
\* decode holds the bytes of its own stream from where it started and
\* returns their value; the bytes an encode has sent are those of its value
AsAlone(i) ==
    /\ acc[i].kind = "read"
       => /\ chan[i].rpos = hist[i].start + acc[i].cnt
          /\ \A k \in 1..acc[i].cnt :
                acc[i].buf[k] = chan[i].data[hist[i].start + k]
          /\ acc[i].cnt = acc[i].fmt.w <=> ret[i].tag = "Ok"
          /\ ret[i].tag = "Ok" => ret[i] = SingleDelivery(i)
    /\ acc[i].kind = "write"
       => /\ Sent(i) = SubSeq(Encode(acc[i].fmt, hist[i].arg), 1, acc[i].cnt)
          /\ acc[i].cnt = acc[i].fmt.w <=> ret[i].tag = "Ok"

\* C16: two operations on distinct channels whose poll() invocations are
\* interleaved in any order each come to the outcome, and have the effect
\* on their own channel, that they have alone: no poll() of one accumulator
\* changes the buffer, the counter or the channel of the other.
C16_Independent ==
    /\ [][\A i \in Ids : \A j \in Ids \ {i} :
            Advances(i)
            => /\ acc'[j] = acc[j]
               /\ chan'[j] = chan[j]
               /\ ret'[j] = ret[j]
               /\ pc'[j] = pc[j]
               /\ wake'[j] = wake[j]]_vars
    /\ [](\A i \in Ids : AsAlone(i))

\* C16 witness: both futures are inside a poll() at once, each with one of
\* its two bytes, and the first has the byte of its own stream
C16_Witness ==
    /\ acc[1].kind = "read" /\ acc[1].cnt = 1 /\ pc[1] = "loop"
    /\ acc[2].kind = "read" /\ acc[2].cnt = 1 /\ pc[2] = "loop"
    /\ acc[1].buf = <<2, 0>>
    /\ acc[2].buf = <<255, 0>>

\* the place in the wire bytes of the byte of significance k - 1
WireIndex(fmt, k) == IF fmt.bo = "BE" THEN fmt.w + 1 - k ELSE k

\* C18: the wire format is bit-exact: a big-endian encode hands the channel
\* the most significant byte first, a little-endian encode the least
\* significant first, in exactly Width bytes; 1205419366 as a big-endian
\* 32-bit value is sent as 47 D9 3D 66.
C18_WireFormat ==
    \A i \in Ids :
        (acc[i].kind = "write" /\ ret[i].tag = "Ok")
        => /\ Len(Sent(i)) = acc[i].fmt.w
           /\ \A k \in 1..acc[i].fmt.w :
                 Sent(i)[WireIndex(acc[i].fmt, k)] = hist[i].arg[k]
           /\ (acc[i].fmt.ty = "u" /\ acc[i].fmt.w = 4
                 /\ hist[i].arg = FromNat(1205419366, 4))
              => Sent(i) = (IF acc[i].fmt.bo = "BE" THEN <<71, 217, 61, 102>>
                            ELSE <<102, 61, 217, 71>>)

\* C18 witness: write_u32::<BigEndian>(1205419366) has completed
C18_Witness ==
    /\ acc[1].kind = "write"
    /\ acc[1].fmt = Fmt("u", 4, 4, "BE")
    /\ hist[1].arg = FromNat(1205419366, 4)
    /\ ret[1].tag = "Ok"
    /\ chan[1].sink = <<71, 217, 61, 102>>

\* the wire bytes the decode in flight on channel i was given
Wire(i) ==
    SubSeq(chan[i].data, hist[i].start + 1, hist[i].start + acc[i].fmt.w)

\* C19: decoding a 3-byte or 6-byte value fills the high-order bytes of the
\* 32-bit or 64-bit result with zero for an unsigned type and with the sign
\* of the most significant wire byte for a signed one: FF 7A 33 as signed
\* 24-bit big-endian is -34253, 00 01 0B as unsigned 24-bit big-endian 267.
C19_OddWidthDecode ==
    \A i \in Ids :
        (acc[i].kind = "read" /\ acc[i].fmt \in OddFormats
           /\ ret[i].tag = "Ok" /\ hist[i].oks = 1)
        => LET fmt == acc[i].fmt
               top == Wire(i)[WireIndex(fmt, fmt.w)]
           IN  /\ Len(ret[i].val) = fmt.cw
               /\ \A k \in 1..fmt.w :
                     ret[i].val[k] = Wire(i)[WireIndex(fmt, k)]
               /\ \A k \in (fmt.w + 1)..fmt.cw :
                     ret[i].val[k] =
                        (IF fmt.ty = "i" /\ top >= 128 THEN 255 ELSE 0)
               /\ (fmt = Fmt("i", 3, 4, "BE") /\ Wire(i) = Stream24)
                  => ToInt(fmt, ret[i].val) = 0 - 34253
               /\ (fmt = Fmt("u", 3, 4, "BE") /\ Wire(i) = StreamU24)
                  => ToInt(fmt, ret[i].val) = 267
               /\ (fmt = Fmt("u", 6, 8, "BE") /\ Wire(i) = StreamU48)
                  => ret[i].val
                     = FromDec(<<2, 0, 0, 5, 9, 8, 2, 5, 7, 1, 5, 0, 7, 6, 9>>, 8)

\* C19 witness: read_i24::<BigEndian>() of FF 7A 33 has returned -34253,
\* the bytes delivered one at a time
C19_Witness ==
    /\ acc[1].kind = "read"
    /\ acc[1].fmt = Fmt("i", 3, 4, "BE")
    /\ chan[1].data = Stream24
    /\ hist[1].last = ROk(1)
    /\ hist[1].polls = 3
    /\ ret[1] = RetOk(<<51, 122, 255, 255>>)

\* C20: for the 24-bit and 48-bit widths, encoding a value of the carrier
\* type outside the 24-bit or 48-bit range does not fail, it sends the 3 or
\* 6 low-order bytes of the value's two's complement; and decoding any 3 or
\* 6 bytes yields a value without crashing.
C20_Truncation ==
    \A i \in Ids :
        (hist[i].opn > 0 /\ hist[i].fmt \in OddFormats)
        => /\ pc[i] # "panic"
           /\ ret[i].tag # "Panic"
           /\ (acc[i].kind = "write" /\ ret[i].tag = "Ok")
              => /\ Len(Sent(i)) = acc[i].fmt.w
                 /\ \A k \in 1..acc[i].fmt.w :
                       Sent(i)[WireIndex(acc[i].fmt, k)] = hist[i].arg[k]
           /\ (acc[i].kind = "read" /\ acc[i].cnt = acc[i].fmt.w)
              => (ret[i].tag = "Ok" /\ Len(ret[i].val) = acc[i].fmt.cw)

\* ------------------------------------------------ every value of a byte
\* write_u8 / write_i8 of any value of the type into a fresh Vec, and the
\* read of the byte written
StartWriteByte(i) ==
    /\ acc[i].kind = "none"
    /\ hist[i].opn = 0
    /\ \E fmt \in ByteFormats : \E v \in ByteRange(fmt) :
          /\ acc' = [acc EXCEPT ![i] = NewWriter(fmt, v)]
          /\ hist' = [hist EXCEPT ![i] = [Fresh(i, fmt) EXCEPT !.arg = v]]
    /\ ret' = [ret EXCEPT ![i] = NoRet]
    /\ UNCHANGED <<pc, chan, wake>>

InitByte == InitOn({})

NextByte ==
    \/ StartWriteByte(1)
    \/ Poll(1, FALSE)
    \/ Rtt(1)

SpecByte == InitByte /\ [][NextByte]_vars

\* C21: a single-byte encode followed by a single-byte decode of the byte
\* the channel received returns the original value, for every unsigned and
\* every signed 8-bit value: a signed value is sent as its two's-complement
\* byte and read back by reinterpreting that byte as signed.
C21_ByteRoundTrip ==
    \A i \in Ids :
        (hist[i].back.on /\ hist[i].back.fmt \in ByteFormats)
        => LET v == hist[i].back.v
           IN  /\ chan[i].data # <<>>
               /\ \A k \in 1..Len(chan[i].data) :
                     chan[i].data[k] = (IF v < 0 THEN v + 256 ELSE v)
               /\ acc[i].kind = "read8"
               /\ acc[i].fmt = hist[i].back.fmt
               /\ ret[i].tag = "Ok" => ret[i].val = v
               /\ (hist[i].last = ROk(1) /\ hist[i].polls > 0)
                  => ret[i] = RetOk(v)

\* C21 witness: write_i8(-128) sent the byte 80, and read_i8 of it has
\* returned -128
C21_Witness ==
    /\ hist[1].back.on
    /\ hist[1].back.fmt = Fmt("i", 1, 1, "BE")
    /\ hist[1].back.v = 0 - 128
    /\ chan[1].data = <<128>>
    /\ ret[1] = RetOk(0 - 128)

\* the value the w bytes b stand for under the ordering and type of fmt:
\* byte by byte, least significant first, widened to the carrier
ValueOf(fmt, b) ==
    [k \in 1..fmt.cw |->
        IF k <= fmt.w THEN b[WireIndex(fmt, k)]
        ELSE IF fmt.ty = "i" /\ b[WireIndex(fmt, fmt.w)] >= 128 THEN 255
        ELSE 0]

\* C22: in every state of a multi-byte decode accumulator whose channel
\* never reports more than it was offered, 0 <= read <= Width, read never
\* decreases from a step to the next, a value is returned exactly when
\* read = Width, and the value is determined by the Width buffer bytes and
\* the ordering alone.
C22_DecodeInvariant ==
    /\ [](\A i \in Ids :
            (acc[i].kind = "read" /\ Honest(i))
            => /\ 0 <= acc[i].cnt /\ acc[i].cnt <= acc[i].fmt.w
               /\ Len(acc[i].buf) = acc[i].fmt.w
               /\ ret[i].tag = "Ok" <=> acc[i].cnt = acc[i].fmt.w
               /\ ret[i].tag = "Ok"
                  => ret[i].val = ValueOf(acc[i].fmt, acc[i].buf))
    /\ [][\A i \in Ids :
            (acc[i].kind = "read" /\ acc'[i].kind = "read" /\ Honest(i)')
            => acc'[i].cnt >= acc[i].cnt]_vars

\* C22 witness: a 48-bit decode has returned its value in its second
\* poll(), the first suspended at 4 bytes
C22_Witness ==
    /\ acc[1].kind = "read"
    /\ acc[1].fmt.w = 6
    /\ acc[1].cnt = 6
    /\ hist[1].polls = 2
    /\ hist[1].pends = 1
    /\ hist[1].last = ROk(2)
    /\ ret[1].tag = "Ok"

\* C23: in every state of a multi-byte encode accumulator whose channel
\* never reports more than it was offered, 0 <= written <= Width, written
\* never decreases, Ready(Ok) is returned exactly when written = Width, and
\* the buffer is the encoding of the value made at construction: no poll()
\* modifies it.
C23_EncodeInvariant ==
    /\ [](\A i \in Ids :
            (acc[i].kind = "write" /\ Honest(i))
            => /\ 0 <= acc[i].cnt /\ acc[i].cnt <= acc[i].fmt.w
               /\ Len(acc[i].buf) = acc[i].fmt.w
               /\ \A k \in 1..acc[i].fmt.w :
                     acc[i].buf[WireIndex(acc[i].fmt, k)] = hist[i].arg[k]
               /\ ret[i].tag = "Ok" <=> acc[i].cnt = acc[i].fmt.w)
    /\ [][\A i \in Ids :
            (acc[i].kind = "write" /\ acc'[i].kind = "write" /\ Honest(i)')
            => /\ acc'[i].cnt >= acc[i].cnt
               /\ acc'[i].buf = acc[i].buf]_vars

\* C23 witness: a 128-bit encode has completed in its third poll(), its
\* buffer still the big-endian bytes of the value
C23_Witness ==
    /\ acc[1].kind = "write"
    /\ acc[1].fmt = Fmt("u", 16, 16, "BE")
    /\ hist[1].arg = Distinct(acc[1].fmt)
    /\ acc[1].buf = Rev(Distinct(acc[1].fmt))
    /\ acc[1].cnt = 16
    /\ hist[1].polls = 3
    /\ hist[1].pends = 2
    /\ ret[1].tag = "Ok"

\* the step is a channel attempt of the multi-byte accumulator i that the
\* channel, keeping its contract, answers with a count
Transfers(i) ==
    /\ Attempted(i)
    /\ IsMulti(acc[i])
    /\ hist'[i].lies = 0
    /\ hist'[i].last.t = "Ok"

\* C24: every channel attempt of a multi-byte decode offers buf[read..], of
\* length Width - read, and every attempt of a multi-byte encode offers
\* buf[written..]: the count is at most Width - cnt, a decode puts the bytes
\* delivered at buf[read .. read + n) and leaves every other byte of the
\* buffer (those already received among them) as it was, and an encode
\* hands over buf[written .. written + n), never a byte already accepted.
C24_OffersTheRest ==
    [][\A i \in Ids :
        Transfers(i)
        => LET k == acc[i].cnt
               n == hist'[i].last.n
               w == acc[i].fmt.w
           IN  /\ Offered(acc[i]) = w - k
               /\ n <= w - k
               /\ acc[i].kind = "read"
                  => /\ chan'[i].rpos = chan[i].rpos + n
                     /\ \A j \in 1..w :
                           acc'[i].buf[j] =
                             IF k < j /\ j <= k + n
                             THEN chan[i].data[chan[i].rpos + (j - k)]
                             ELSE acc[i].buf[j]
               /\ acc[i].kind = "write"
                  => /\ acc'[i].buf = acc[i].buf
                     /\ chan'[i].sink =
                          chan[i].sink \o [j \in 1..n |-> acc[i].buf[k + j]]]_vars

\* C24 witness: a 32-bit decode that held one byte has been delivered the
\* three bytes it offered room for, and holds the stream's first four
C24_Witness ==
    /\ acc[1].kind = "read"
    /\ acc[1].fmt.w = 4
    /\ hist[1].last = ROk(3)
    /\ hist[1].start = 0
    /\ acc[1].cnt = 4
    /\ acc[1].buf = SubSeq(chan[1].data, 1, 4)
    /\ ret[1].tag = "Ok"

\* the multi-byte future i is suspended: its last poll() returned
\* Poll::Pending
Suspended(i) == IsMulti(acc[i]) /\ pc[i] = "idle" /\ ret[i] = RetPending

\* C25: a poll() that ends in Poll::Pending leaves the counter and the
\* buffer as the last transfer left them, and the next poll() of the future
\* goes on from that counter: a decode suspended at read = k holds the k
\* bytes it was delivered and its next delivery lands at buf[k..], an encode
\* suspended at written = k has sent its first k bytes and sends buf[k..]
\* next.
C25_SuspensionResumes ==
    /\ [][\A i \in Ids :
            /\ (Attempted(i) /\ IsMulti(acc[i]) /\ hist'[i].last = RPending)
               => /\ Suspended(i)'
                  /\ acc'[i].cnt = acc[i].cnt
                  /\ acc'[i].buf = acc[i].buf
            /\ (Suspended(i) /\ Transfers(i))
               => LET k == acc[i].cnt
                      n == hist'[i].last.n
                  IN  /\ hist'[i].polls = hist[i].polls + 1
                      /\ acc'[i].cnt = k + n
                      /\ acc[i].kind = "read"
                         => \A j \in 1..(k + n) :
                               acc'[i].buf[j] = chan[i].data[hist[i].start + j]
                      /\ acc[i].kind = "write"
                         => Sent(i)' = SubSeq(acc[i].buf, 1, k + n)]_vars
    /\ [](\A i \in Ids :
            (Suspended(i) /\ Honest(i))
            => /\ acc[i].cnt < acc[i].fmt.w
               /\ acc[i].kind = "read"
                  => /\ chan[i].rpos = hist[i].start + acc[i].cnt
                     /\ \A j \in 1..acc[i].cnt :
                           acc[i].buf[j] = chan[i].data[hist[i].start + j]
               /\ acc[i].kind = "write"
                  => Sent(i) = SubSeq(acc[i].buf, 1, acc[i].cnt))

\* C25 witness: a 64-bit encode suspended at written = 3 has been polled
\* again, has sent the other five bytes and completed
C25_Witness ==
    /\ acc[1].kind = "write"
    /\ acc[1].fmt.w = 8
    /\ hist[1].polls = 2
    /\ hist[1].pends = 1
    /\ hist[1].last = ROk(5)
    /\ Sent(1) = acc[1].buf
    /\ ret[1].tag = "Ok"

\* C26: a multi-byte decode poll() returns Poll::Pending only when the
\* channel's latest response in that call was Poll::Pending: after a
\* delivery of n > 0 bytes that leaves read < Width the loop asks the
\* channel again within the same poll() and returns nothing yet; after a
\* not-ready response the call returns, and the next attempt belongs to a
\* new poll().
C26_SuspendsOnlyOnPending ==
    /\ [][\A i \in Ids :
            /\ (acc[i].kind = "read" /\ Transfers(i)
                  /\ hist'[i].last.n > 0 /\ acc'[i].cnt < acc[i].fmt.w)
               => (pc'[i] = "loop" /\ ret'[i] = NoRet)
            /\ (acc[i].kind = "read" /\ pc[i] = "loop" /\ hist'[i] # hist[i])
               => (Attempted(i) /\ hist'[i].polls = hist[i].polls
                     /\ acc'[i].kind = "read")
            /\ (acc[i].kind = "read" /\ Attempted(i)
                  /\ hist'[i].last = RPending)
               => (pc'[i] = "idle" /\ ret'[i] = RetPending)
            /\ (acc[i].kind = "read" /\ ret[i] = RetPending /\ Attempted(i))
               => hist'[i].polls = hist[i].polls + 1]_vars
    /\ [](\A i \in Ids :
            (acc[i].kind = "read" /\ ret[i] = RetPending)
            => (hist[i].last = RPending /\ pc[i] = "idle"))

\* C26 witness: a 64-bit decode has completed within its first poll(), the
\* last of its deliveries one of three bytes
C26_Witness ==
    /\ acc[1].kind = "read"
    /\ acc[1].fmt.w = 8
    /\ hist[1].polls = 1
    /\ hist[1].pends = 0
    /\ hist[1].last = ROk(3)
    /\ acc[1].cnt = 8
    /\ ret[1].tag = "Ok"

\* C27: a short delivery alone is never a failure: a multi-byte decode
\* returns Err(UnexpectedEof) only from a poll() whose last response was
\* Ready(Ok(0)); a delivery of fewer bytes than the range offered adds to
\* `read` and fails nothing.
C27_ShortDeliveryNoFailure ==
    /\ [](\A i \in Ids :
            (acc[i].kind = "read" /\ ret[i] = RetErr("UnexpectedEof"))
            => (hist[i].last = ROk(0) /\ pc[i] = "idle"))
    /\ [][\A i \in Ids :
            (acc[i].kind = "read" /\ Transfers(i)
               /\ 0 < hist'[i].last.n
               /\ hist'[i].last.n < acc[i].fmt.w - acc[i].cnt)
            => /\ ret'[i] = NoRet
               /\ hist'[i].errs = hist[i].errs
               /\ acc'[i].cnt = acc[i].cnt + hist'[i].last.n]_vars

\* C27 witness: a 32-bit decode has completed in one poll() from deliveries
\* shorter than the range offered, the last of one byte
C27_Witness ==
    /\ acc[1].kind = "read"
    /\ acc[1].fmt.w = 4
    /\ hist[1].polls = 1
    /\ hist[1].last = ROk(1)
    /\ hist[1].errs = 0
    /\ acc[1].cnt = 4
    /\ ret[1].tag = "Ok"

\* the step is a poll() of the multi-byte future i, which has completed
RepollsComplete(i) ==
    /\ IsMulti(acc[i])
    /\ Filled(acc[i])
    /\ ret[i].tag = "Ok"
    /\ pc[i] = "idle"
    /\ hist'[i].polls = hist[i].polls + 1

\* C28: a poll() of a multi-byte future that has completed (read = Width,
\* written = Width) makes no channel attempt and returns what it returned:
\* the decode the same value, the encode Ok(()); the accumulator is left as
\* it is and no byte is taken from or sent to the channel.
C28_CompletedIsStable ==
    [][\A i \in Ids :
        RepollsComplete(i)
        => /\ ret'[i] = ret[i]
           /\ acc[i].kind = "read" => ret'[i] = SingleDelivery(i)
           /\ acc[i].kind = "write" => ret'[i] = RetOk(<<>>)
           /\ acc'[i] = acc[i]
           /\ chan'[i] = chan[i]
           /\ hist'[i].last = hist[i].last
           /\ hist'[i].pends = hist[i].pends
           /\ hist'[i].errs = hist[i].errs
           /\ pc'[i] = "idle"]_vars

\* C28 witness: the decode of 517 from 02 05 03 00, complete after its first
\* poll(), has been polled twice more: it has returned 517 three times and
\* the stream is still at its third byte
C28_Witness ==
    /\ acc[1].kind = "read"
    /\ acc[1].fmt = Fmt("u", 2, 2, "BE")
    /\ chan[1].data = Stream16
    /\ hist[1].start = 0
    /\ hist[1].last = ROk(2)
    /\ hist[1].polls = 3
    /\ hist[1].oks = 3
    /\ chan[1].rpos = 2
    /\ ret[1] = RetOk(FromNat(517, 2))

\* ------------------------------------------ the attempts of one poll()
\* the decodes whose attempts are counted: the unsigned big-endian types of
\* up to 64 bits, one of each width
CountFormats == {f \in MultiFormats : f.ty = "u" /\ f.bo = "BE" /\ f.w <= 8}

\* a read method called on channel i, the attempts of its future counted
StartReadCounted(i) ==
    /\ acc[i].kind = "none"
    /\ chan[i].data # <<>>
    /\ \E fmt \in CountFormats :
          /\ acc' = [acc EXCEPT ![i] = NewReader(fmt)]
          /\ hist' = [hist EXCEPT ![i] = [Fresh(i, fmt) EXCEPT !.trk = TRUE]]
    /\ ret' = [ret EXCEPT ![i] = NoRet]
    /\ UNCHANGED <<pc, chan, wake>>

NextCount ==
    \/ StartReadCounted(1)
    \/ PollReady(1)
    \/ Poll(1, FALSE)
    \/ Continue(1, FALSE)

\* every poll_read returns, so a poll() inside its loop takes its next step
SpecCount == Init /\ [][NextCount]_vars /\ WF_vars(Continue(1, FALSE))

\* C29: every poll() of a multi-byte decode future returns after at most
\* Width - read channel attempts (read taken at the entry of the call),
\* because each attempt either ends the call (not ready, zero length,
\* fault) or increases read by at least one.
C29_AttemptsBounded ==
    /\ [](\A i \in Ids :
            (acc[i].kind = "read" /\ hist[i].trk /\ hist[i].polls > 0)
            => /\ hist[i].att <= acc[i].fmt.w - hist[i].cnt0
               /\ pc[i] = "loop"
                  => (hist[i].att <= acc[i].cnt - hist[i].cnt0
                        /\ acc[i].cnt < acc[i].fmt.w))
    /\ [][\A i \in Ids :
            (acc[i].kind = "read" /\ Attempted(i))
            => \/ pc'[i] = "idle" /\ ret'[i].tag \in {"Pending", "Err"}
               \/ pc'[i] = "idle" /\ ret'[i].tag = "Ok"
                     /\ acc'[i].cnt >= acc[i].cnt + 1
               \/ pc'[i] = "loop" /\ acc'[i].cnt >= acc[i].cnt + 1]_vars
    /\ \A i \in Ids : (pc[i] = "loop") ~> (pc[i] # "loop")

\* C29 witness: the second poll() of a 64-bit decode, entered with one byte
\* held, has returned the value after seven attempts of one byte
C29_Witness ==
    /\ acc[1].kind = "read"
    /\ acc[1].fmt.w = 8
    /\ hist[1].trk
    /\ hist[1].polls = 2
    /\ hist[1].cnt0 = 1
    /\ hist[1].att = 7
    /\ ret[1].tag = "Ok"

\* C30: the counter is a u8 and each count is narrowed (`n as u8`) before it
\* is added: for every width (at most 16) and a channel that reports no
\* more than it was offered, the narrowing loses nothing and the sum stays
\* within Width, so the addition never overflows the u8 (no wrap modulo 256,
\* no overflow panic) and the counter is the sum of the counts.
C30_CounterNeverWraps ==
    /\ [][\A i \in Ids :
            Transfers(i)
            => LET n == hist'[i].last.n
               IN  /\ AsCount(n) = n
                   /\ acc[i].cnt + AsCount(n) <= acc[i].fmt.w
                   /\ acc[i].cnt + AsCount(n) <= 255
                   /\ acc'[i].cnt = acc[i].cnt + n
                   /\ pc'[i] # "panic"
                   /\ ret'[i] # RetPanic]_vars
    /\ [](\A i \in Ids :
            (IsMulti(acc[i]) /\ Honest(i))
            => (acc[i].fmt.w <= 16 /\ acc[i].cnt <= acc[i].fmt.w
                  /\ pc[i] # "panic"))

\* C30 witness: a 128-bit decode has been delivered its sixteen bytes in one
\* response, and its counter stands at 16
C30_Witness ==
    /\ acc[1].kind = "read"
    /\ acc[1].fmt.w = 16
    /\ hist[1].polls = 1
    /\ hist[1].last = ROk(16)
    /\ acc[1].cnt = 16
    /\ ret[1].tag = "Ok"

\* C31: when the channel reports more than one byte delivered for a
\* single-byte decode, which offered a range of one byte, the poll() panics
\* (unreachable!()): it yields neither a value nor an error result, and the
\* future that panicked is not polled on.
C31_OverDeliveryPanics ==
    /\ [][\A i \in Ids :
            (Attempted(i) /\ acc[i].kind = "read8"
               /\ hist'[i].last.t = "Ok" /\ hist'[i].last.n > 1)
            => /\ Offered(acc[i]) = 1
               /\ pc'[i] = "panic"
               /\ ret'[i] = RetPanic
               /\ ret'[i].tag \notin {"Ok", "Err", "Pending"}
               /\ hist'[i].oks = hist[i].oks
               /\ hist'[i].errs = hist[i].errs]_vars
    /\ [](\A i \in Ids :
            (acc[i].kind = "read8" /\ hist[i].polls > 0)
            => /\ (hist[i].last.t = "Ok" /\ hist[i].last.n > 1)
                  <=> pc[i] = "panic"
               /\ pc[i] = "panic" => ret[i] = RetPanic)
    /\ [][\A i \in Ids :
            (acc[i].kind = "read8" /\ pc[i] = "panic")
            => (ret'[i] = ret[i] /\ hist'[i] = hist[i])]_vars

\* C31 witness: read_u8 has panicked in its second poll(), on a channel that
\* reported 2 bytes delivered into the one-byte buffer
C31_Witness ==
    /\ acc[1].kind = "read8"
    /\ acc[1].fmt.ty = "u"
    /\ hist[1].polls = 2
    /\ hist[1].pends = 1
    /\ hist[1].last = ROk(2)
    /\ hist[1].oks = 0
    /\ hist[1].errs = 0
    /\ pc[1] = "panic"
    /\ ret[1] = RetPanic

====
